---- MODULE Spec2Model ----
(***************************************************************************)
(* The maze engine of src/src/make_kdp_maze_book.py (class Maze): the      *)
(* grid/wall data model, the randomized depth-first backtracker            *)
(* (Maze.create / Maze._generate) and the breadth-first solver             *)
(* (Maze.neighbors_open / Maze.solve_bfs).  src/generate_kids_mazes.py     *)
(* holds the same class without the seed argument.                         *)
(*                                                                         *)
(* A cell is a pair <<x, y>>.  Python's None is the empty tuple.  An       *)
(* optional seed is <<>> (None) or <<s>>.                                  *)
(***************************************************************************)
EXTENDS Integers, Sequences, FiniteSets, TLC

VARIABLES
    width,      \* Maze.width of the maze under construction or returned
    height,     \* Maze.height
    cells,      \* Maze.cells: cell -> [N, S, E, W -> wall present]
    stack,      \* _generate's local stack
    visited,    \* _generate's local visited set
    pc,         \* "idle": no maze yet; "generate": inside _generate's loop;
                \* "made": create has returned the maze
    rng,        \* state of the module-level random generator:
                \* <<>> = the unknown state set from OS entropy, <<v>> = known
    seed,       \* the seed argument of the last create call
    start,      \* arguments and outcome of the last solve_bfs call on the maze
    goal,
    path,
    res,        \* "none": not called; "path": returned path; "KeyError": raised
    first,      \* observer's note of one seeded maze: <<>> or <<[w, h, seed, cells]>>
    pushed,     \* cell -> number of times _generate has put it on the stack
    popped      \* cell -> number of times _generate has popped it

vars == <<width, height, cells, stack, visited, pc, rng, seed,
          start, goal, path, res, first, pushed, popped>>

(***************************************************************************)
(* Bounds of the model.                                                    *)
(***************************************************************************)
\* Grids of at most MaxCells cells are generated (3x3 at the largest).
MaxCells == 9
\* Seeds 1..MaxSeed are passed to create.
MaxSeed == 1
\* Number of states of the stand-in random generator.
RngStates == 8

None == <<>>

\* Dimensions passed to create: every W x H with at most MaxCells cells, and
\* the non-positive dimensions 0 and -1.
Dims == {d \in (-1 .. MaxCells) \X (-1 .. MaxCells) : d[1] * d[2] <= MaxCells}

Seeds == {None} \cup {<<s>> : s \in 1 .. MaxSeed}

\* The cells of range(w) x range(h).
Grid(w, h) == (0 .. (w - 1)) \X (0 .. (h - 1))

\* Cells outside the grid passed to solve_bfs.
OutCells(w, h) == {<<-1, 0>>, <<w, h - 1>>, <<w + 5, h + 5>>}

(***************************************************************************)
(* Maze.create, lines 48-51: all four walls present for every cell.        *)
(***************************************************************************)
AllWalls == [N |-> TRUE, S |-> TRUE, E |-> TRUE, W |-> TRUE]

NewCells(w, h) == [c \in Grid(w, h) |-> AllWalls]

(***************************************************************************)
(* The module-level generator of Python's random.  The Mersenne Twister is *)
(* replaced by a small generator with the same contract: seed(s) sets the  *)
(* state as a function of s alone, and a draw is a function of the state   *)
(* and advances it.  In the unknown state every draw is possible.          *)
(***************************************************************************)
RngSeedIgnored(r, s) == r

\* create, lines 46-47: random.seed(seed) unless seed is None.
RngSeed(r, s) == IF s # None THEN <<s[1] % RngStates>> ELSE r

RngAdvance(r) == IF r = None THEN r ELSE <<(5 * r[1] + 3) % RngStates>>

\* random.choice(seq) of line 70: the indices (1-based) it can return.
RandomChoice(r, n) == IF r = None THEN 1 .. n ELSE {(r[1] % n) + 1}

(***************************************************************************)
(* Maze._generate, lines 56-76.                                            *)
(***************************************************************************)
CandSwapped(c) ==
    << [nb |-> <<c[1], c[2] - 1>>, dcur |-> "N", dnb |-> "S"],
       [nb |-> <<c[1], c[2] + 1>>, dcur |-> "S", dnb |-> "N"],
       [nb |-> <<c[1] + 1, c[2]>>, dcur |-> "W", dnb |-> "E"],
       [nb |-> <<c[1] - 1, c[2]>>, dcur |-> "E", dnb |-> "W"] >>

CandSameSide(c) ==
    << [nb |-> <<c[1], c[2] - 1>>, dcur |-> "N", dnb |-> "N"],
       [nb |-> <<c[1], c[2] + 1>>, dcur |-> "S", dnb |-> "S"],
       [nb |-> <<c[1] + 1, c[2]>>, dcur |-> "E", dnb |-> "E"],
       [nb |-> <<c[1] - 1, c[2]>>, dcur |-> "W", dnb |-> "W"] >>

\* Lines 64-65: the candidate list, in the code's order N, S, E, W.
Cand(c) ==
    << [nb |-> <<c[1], c[2] - 1>>, dcur |-> "N", dnb |-> "S"],
       [nb |-> <<c[1], c[2] + 1>>, dcur |-> "S", dnb |-> "N"],
       [nb |-> <<c[1] + 1, c[2]>>, dcur |-> "E", dnb |-> "W"],
       [nb |-> <<c[1] - 1, c[2]>>, dcur |-> "W", dnb |-> "E"] >>

UnvisitedUpTo(e) ==
    /\ 0 <= e.nb[1] /\ e.nb[1] <= width
    /\ 0 <= e.nb[2] /\ e.nb[2] < height
    /\ e.nb \notin visited

UnvisitedNoFloor(e) ==
    /\ e.nb[1] < width
    /\ e.nb[2] < height
    /\ e.nb \notin visited

NotOnStack(e) ==
    /\ 0 <= e.nb[1] /\ e.nb[1] < width
    /\ 0 <= e.nb[2] /\ e.nb[2] < height
    /\ \A i \in 1 .. Len(stack) : stack[i] # e.nb

InBoundsOnly(e) ==
    /\ 0 <= e.nb[1] /\ e.nb[1] < width
    /\ 0 <= e.nb[2] /\ e.nb[2] < height

\* Line 67: in bounds and not visited.
Unvisited(e) ==
    /\ 0 <= e.nb[1] /\ e.nb[1] < width
    /\ 0 <= e.nb[2] /\ e.nb[2] < height
    /\ e.nb \notin visited

\* Lines 62-68: the list neighbors, in candidate order.
Neighbors(c) == SelectSeq(Cand(c), Unvisited)

KnockOneSide(cs, cur, e) == [cs EXCEPT ![cur][e.dcur] = FALSE]

KnockWholeCell(cs, cur, e) ==
    [cs EXCEPT ![cur][e.dcur] = FALSE,
               ![e.nb] = [N |-> FALSE, S |-> FALSE, E |-> FALSE, W |-> FALSE]]

\* Lines 71-72: knock down the wall between current and the chosen neighbour.
Knock(cs, cur, e) ==
    [cs EXCEPT ![cur][e.dcur] = FALSE, ![e.nb][e.dnb] = FALSE]

PopAll(s) == <<>>

PopBottom(s) == Tail(s)

\* Line 76: stack.pop().
Pop(s) == SubSeq(s, 1, Len(s) - 1)

\* One more push (lines 58, 74) or pop (line 76) of cell c in the count f.
Bump(f, c) == IF c \in DOMAIN f THEN [f EXCEPT ![c] = @ + 1] ELSE f @@ (c :> 1)

\* Maze.create(w, h, s), lines 45-53, up to the first test of the loop.
Create(w, h, s) ==
    /\ pc \in {"idle", "made"}
    /\ rng' = RngSeed(rng, s)
    /\ seed' = s
    /\ width' = w
    /\ height' = h
    /\ cells' = NewCells(w, h)
    /\ stack' = << <<0, 0>> >>
    /\ visited' = {<<0, 0>>}
    /\ pc' = "generate"
    /\ start' = None /\ goal' = None /\ path' = <<>> /\ res' = "none"
    /\ pushed' = (<<0, 0>> :> 1)
    /\ popped' = <<>>
    /\ UNCHANGED first

\* One pass of the loop taking the branch of lines 69-74.
GenPush ==
    /\ pc = "generate"
    /\ stack # <<>>
    /\ LET current == stack[Len(stack)]
           neighbors == Neighbors(current)
       IN /\ neighbors # <<>>
          /\ \E i \in RandomChoice(rng, Len(neighbors)) :
                /\ cells' = Knock(cells, current, neighbors[i])
                /\ visited' = visited \cup {neighbors[i].nb}
                /\ stack' = Append(stack, neighbors[i].nb)
                /\ pushed' = Bump(pushed, neighbors[i].nb)
          /\ rng' = RngAdvance(rng)
    /\ UNCHANGED <<width, height, pc, seed, start, goal, path, res, first, popped>>

\* One pass of the loop taking the branch of lines 75-76.
GenPop ==
    /\ pc = "generate"
    /\ stack # <<>>
    /\ Neighbors(stack[Len(stack)]) = <<>>
    /\ stack' = Pop(stack)
    /\ popped' = Bump(popped, stack[Len(stack)])
    /\ UNCHANGED <<width, height, cells, visited, pc, rng, seed,
                   start, goal, path, res, first, pushed>>

\* The loop test of line 60 fails; _generate and create return (line 54).
GenReturn ==
    /\ pc = "generate"
    /\ stack = <<>>
    /\ pc' = "made"
    /\ UNCHANGED <<width, height, cells, stack, visited, rng, seed,
                   start, goal, path, res, first, pushed, popped>>

(***************************************************************************)
(* Maze.neighbors_open, lines 78-89: the open neighbours of a cell, in the *)
(* code's order N, S, E, W.  It is applied only to keys of cells; the      *)
(* caller models the KeyError of self.cells[cell] for any other cell.      *)
(***************************************************************************)
NeighborsOpenNoWalls(cell) ==
    LET x == cell[1]
        y == cell[2]
    IN  (IF y - 1 >= 0 THEN << <<x, y - 1>> >> ELSE <<>>)
        \o (IF y + 1 < height THEN << <<x, y + 1>> >> ELSE <<>>)
        \o (IF x + 1 < width THEN << <<x + 1, y>> >> ELSE <<>>)
        \o (IF x - 1 >= 0 THEN << <<x - 1, y>> >> ELSE <<>>)

NeighborsOpen(cell) ==
    LET x == cell[1]
        y == cell[2]
    IN  (IF ~cells[cell]["N"] /\ y - 1 >= 0 THEN << <<x, y - 1>> >> ELSE <<>>)
        \o (IF ~cells[cell]["S"] /\ y + 1 < height THEN << <<x, y + 1>> >> ELSE <<>>)
        \o (IF ~cells[cell]["E"] /\ x + 1 < width THEN << <<x + 1, y>> >> ELSE <<>>)
        \o (IF ~cells[cell]["W"] /\ x - 1 >= 0 THEN << <<x - 1, y>> >> ELSE <<>>)

(***************************************************************************)
(* Maze.solve_bfs, lines 91-110.                                           *)
(***************************************************************************)
\* Lines 100-103: the for loop over the open neighbours of cur.
RECURSIVE Expand(_, _, _, _)
Expand(nbs, cur, queue, came) ==
    IF nbs = <<>> THEN [queue |-> queue, came |-> came]
    ELSE LET nb == Head(nbs)
         IN  IF nb \in DOMAIN came
             THEN Expand(Tail(nbs), cur, queue, came)
             ELSE Expand(Tail(nbs), cur, Append(queue, nb), came @@ (nb :> cur))

\* Lines 96-103: the while loop.  err: self.cells[cell] of line 81 raised
\* KeyError, which ends solve_bfs.
RECURSIVE Bfs(_, _, _)
Bfs(queue, came, g) ==
    IF queue = <<>> THEN [err |-> FALSE, came |-> came]
    ELSE LET cur == Head(queue)
         IN  IF cur = g THEN [err |-> FALSE, came |-> came]
             ELSE IF cur \notin DOMAIN cells THEN [err |-> TRUE, came |-> came]
             ELSE LET x == Expand(NeighborsOpen(cur), cur, Tail(queue), came)
                  IN  Bfs(x.queue, x.came, g)

RECURSIVE WalkBackDropsStart(_, _)
WalkBackDropsStart(came, cur) ==
    LET prev == IF cur \in DOMAIN came THEN came[cur] ELSE None
    IN  IF prev = None THEN <<>>
        ELSE <<cur>> \o WalkBackDropsStart(came, prev)

WalkBackSkipsGoal(came, cur) ==
    WalkBackDropsStart(came, cur) \o (IF cur \in DOMAIN came /\ came[cur] = None
                                     THEN <<>> ELSE <<cur>>)

\* Lines 104-108: follow came_from from the goal; came_from.get gives None
\* for a cell that was never discovered.
RECURSIVE WalkBack(_, _)
WalkBack(came, cur) ==
    IF cur = None THEN <<>>
    ELSE <<cur>> \o WalkBack(came, IF cur \in DOMAIN came THEN came[cur] ELSE None)

NoReverse(s) == s

\* Line 109: path.reverse().
Reverse(s) == [i \in 1 .. Len(s) |-> s[Len(s) + 1 - i]]

\* Lines 92-93: the default goal is the far corner.
GoalOf(g) == IF g = None THEN <<width - 1, height - 1>> ELSE g

\* solve_bfs(st, g) on the maze of the state: what it raises or returns.
SolveBfs(st, g) ==
    LET b == Bfs(<<st>>, (st :> None), GoalOf(g))
    IN  IF b.err THEN [res |-> "KeyError", path |-> <<>>]
        ELSE [res |-> "path", path |-> Reverse(WalkBack(b.came, GoalOf(g)))]

SolveMarks(st, g) ==
    /\ pc = "made"
    /\ res = "none"
    /\ LET r == SolveBfs(st, g)
       IN  start' = st /\ goal' = g /\ res' = r.res /\ path' = r.path
    /\ cells' = [c \in DOMAIN cells |->
                    IF c = st THEN [cells[c] EXCEPT !.N = FALSE] ELSE cells[c]]
    /\ UNCHANGED <<width, height, stack, visited, pc, rng, seed, first,
                   pushed, popped>>

\* A call maze.solve_bfs(st, g) on the returned maze; start, goal, path and
\* res hold the call and its outcome until the caller drops them.
Solve(st, g) ==
    /\ pc = "made"
    /\ res = "none"
    /\ LET r == SolveBfs(st, g)
       IN  start' = st /\ goal' = g /\ res' = r.res /\ path' = r.path
    /\ UNCHANGED <<width, height, cells, stack, visited, pc, rng, seed, first,
                   pushed, popped>>

\* The caller drops the outcome of solve_bfs; the maze can be solved again.
Discard ==
    /\ pc = "made"
    /\ res # "none"
    /\ start' = None /\ goal' = None /\ path' = <<>> /\ res' = "none"
    /\ UNCHANGED <<width, height, cells, stack, visited, pc, rng, seed, first,
                   pushed, popped>>

\* The observer notes one maze that was created with a seed.
Remember ==
    /\ pc = "made"
    /\ seed # None
    /\ width >= 1 /\ height >= 1
    /\ first = <<>>
    /\ first' = <<[w |-> width, h |-> height, seed |-> seed, cells |-> cells]>>
    /\ UNCHANGED <<width, height, cells, stack, visited, pc, rng, seed,
                   start, goal, path, res, pushed, popped>>

Init ==
    /\ width = 0 /\ height = 0 /\ cells = NewCells(0, 0)
    /\ stack = <<>> /\ visited = {}
    /\ pc = "idle"
    /\ rng = None /\ seed = None
    /\ start = None /\ goal = None /\ path = <<>> /\ res = "none"
    /\ first = <<>>
    /\ pushed = <<>> /\ popped = <<>>

\* Arguments of solve_bfs: the cells of the maze, the default start and
\* some cells outside; the goal may be left out (None).
Starts == Grid(width, height) \cup OutCells(width, height) \cup {<<0, 0>>}

Goals == Grid(width, height) \cup OutCells(width, height) \cup {None}

Next ==
    \/ \E d \in Dims : Create(d[1], d[2], None)
    \/ GenPush
    \/ GenPop
    \/ GenReturn
    \/ \E st \in Starts, g \in Goals : Solve(st, g)
    \/ Discard

\* Generation without a seed (the create of src/generate_kids_mazes.py, and
\* the default of src/src/make_kdp_maze_book.py) and solving.
Spec == Init /\ [][Next]_vars

NextSeed ==
    \/ \E d \in Dims, s \in Seeds : Create(d[1], d[2], s)
    \/ GenPush
    \/ GenPop
    \/ GenReturn
    \/ Remember

\* Repeated generation, with one seeded maze noted for comparison.
SpecSeed == Init /\ [][NextSeed]_vars

NextGen ==
    \/ \E d \in Dims, s \in Seeds : Create(d[1], d[2], s)
    \/ GenPush
    \/ GenPop
    \/ GenReturn

\* Generation alone, with and without a seed.
SpecGen == Init /\ [][NextGen]_vars

\* Generation alone; a loop that has a pass to make makes it.
SpecLive == Init /\ [][NextGen]_vars /\ WF_vars(GenPush \/ GenPop \/ GenReturn)

(***************************************************************************)
(* The open-adjacency graph of the maze of the state, read off the wall    *)
(* flags: its vertices are the cells of the grid, and two cells are joined *)
(* when they are unit-adjacent and neither holds a wall facing the other.  *)
(***************************************************************************)
InGrid == Grid(width, height)

Abs(n) == IF n < 0 THEN -n ELSE n

Adjacent(a, b) == Abs(a[1] - b[1]) + Abs(a[2] - b[2]) = 1

\* The side of a that faces the adjacent cell b.
Facing(a, b) ==
    IF b[2] = a[2] - 1 THEN "N"
    ELSE IF b[2] = a[2] + 1 THEN "S"
    ELSE IF b[1] = a[1] + 1 THEN "E"
    ELSE "W"

OpenBetween(a, b) ==
    /\ Adjacent(a, b)
    /\ ~cells[a][Facing(a, b)]
    /\ ~cells[b][Facing(b, a)]

OpenEdges ==
    {{q[1], q[2]} : q \in {r \in InGrid \X InGrid : OpenBetween(r[1], r[2])}}

\* The cells joined to a cell of seen by a path of edges.
RECURSIVE ReachFrom(_, _)
ReachFrom(edges, seen) ==
    LET more == seen \cup {b \in InGrid : \E a \in seen : {a, b} \in edges}
    IN  IF more = seen THEN seen ELSE ReachFrom(edges, more)

Connected ==
    LET E == OpenEdges
    IN  \A a \in InGrid : ReachFrom(E, {a}) = InGrid

\* No edge lies on a cycle: without it, its ends are apart.
Acyclic ==
    LET E == OpenEdges
    IN  \A e \in E : \A a \in e : (e \ {a}) \cap ReachFrom(E \ {e}, {a}) = {}

\* The number of simple paths of edges from a to b that avoid used.
RECURSIVE NumPaths(_, _, _, _)
RECURSIVE SumPaths(_, _, _, _)
NumPaths(edges, a, b, used) ==
    IF a = b THEN 1
    ELSE SumPaths(edges, {n \in InGrid \ used : {a, n} \in edges}, b, used)

SumPaths(edges, S, b, used) ==
    IF S = {} THEN 0
    ELSE LET n == CHOOSE x \in S : TRUE
         IN  NumPaths(edges, n, b, used \cup {n}) + SumPaths(edges, S \ {n}, b, used)

UniquePaths ==
    LET E == OpenEdges
    IN  \A a \in InGrid : \A b \in InGrid : NumPaths(E, a, b, {a}) = 1

\* create has returned a maze of a proper W x H grid.
Generated == pc = "made" /\ width >= 1 /\ height >= 1

(***************************************************************************)
(* C1: every maze returned by create(W, H), W >= 1 and H >= 1, whatever    *)
(* the random choices, has a connected open-adjacency graph: every cell is *)
(* reachable from every other cell by open steps.                          *)
(***************************************************************************)
C1_Connected == Generated => Connected

C1_Witness == Generated /\ width >= 2 /\ height >= 3 /\ Connected

(***************************************************************************)
(* C2: every maze returned by create(W, H) has exactly W*H - 1 open edges. *)
(***************************************************************************)
C2_EdgeCount == Generated => Cardinality(OpenEdges) = width * height - 1

C2_Witness == Generated /\ width >= 3 /\ height >= 2 /\ Cardinality(OpenEdges) >= 5

(***************************************************************************)
(* C3: the open-adjacency graph of every generated maze is acyclic, and    *)
(* between any two cells there is exactly one simple path of open steps.   *)
(***************************************************************************)
C3_Acyclic ==
    Generated =>
        /\ Acyclic
        /\ UniquePaths

C3_Witness ==
    /\ Generated /\ width >= 2 /\ height >= 2
    /\ Acyclic
    /\ NumPaths(OpenEdges, <<0, 0>>, <<width - 1, height - 1>>, {<<0, 0>>}) = 1

(***************************************************************************)
(* C4: the loop of _generate always terminates, for every W >= 1, H >= 1   *)
(* and every sequence of random choices, and in its terminal state the     *)
(* stack is empty and the visited set is the set of all W*H cells.         *)
(***************************************************************************)
C4_Terminates ==
    /\ (pc = "generate" /\ width >= 1 /\ height >= 1) ~> (pc = "made")
    /\ [](Generated => stack = <<>> /\ visited = InGrid)

C4_Witness ==
    /\ Generated /\ width >= 2 /\ height >= 2
    /\ stack = <<>> /\ visited = InGrid

(***************************************************************************)
(* C5: generating a maze twice with the same seed and the same dimensions  *)
(* yields identical wall configurations: when a later create(W, H, seed)   *)
(* with the dimensions and the seed of the noted maze has finished its     *)
(* loop, every cell has the walls it has in the noted maze.                *)
(***************************************************************************)
SameRequest ==
    /\ first # <<>>
    /\ first[1].w = width /\ first[1].h = height /\ first[1].seed = seed

LoopFinished == pc = "made" \/ (pc = "generate" /\ stack = <<>>)

C5_Deterministic == SameRequest /\ LoopFinished => cells = first[1].cells

\* A second run of the noted request is about to return.
C5_Witness ==
    /\ SameRequest /\ pc = "generate" /\ stack = <<>>
    /\ width >= 2 /\ height >= 2
    /\ cells = first[1].cells

(***************************************************************************)
(* The calls of solve_bfs the claims speak of.                             *)
(***************************************************************************)
\* The goal of the call: an explicit cell, or the far corner by default.
Target == IF goal = None THEN <<width - 1, height - 1>> ELSE goal

\* solve_bfs was called on a generated maze with start and goal in bounds.
InBoundsCall == Generated /\ res # "none" /\ start \in InGrid /\ Target \in InGrid

Flip(s) == [i \in 1 .. Len(s) |-> s[Len(s) + 1 - i]]

\* The number of edges of a shortest path of edges from frontier to b.
RECURSIVE DistFrom(_, _, _, _, _)
DistFrom(edges, seen, frontier, b, d) ==
    IF b \in frontier THEN d
    ELSE IF frontier = {} THEN -1
    ELSE LET more == {n \in InGrid \ seen : \E a \in frontier : {a, n} \in edges}
         IN  DistFrom(edges, seen \cup more, more, b, d + 1)

TreeDist(a, b) == DistFrom(OpenEdges, {a}, {a}, b, 0)

(***************************************************************************)
(* C6: for every generated maze and all in-bounds start and goal,          *)
(* solve_bfs returns a sequence that begins with start, ends with goal,    *)
(* and whose consecutive cells differ by one unit along one axis and have  *)
(* no wall between them.                                                   *)
(***************************************************************************)
C6_ValidPath ==
    InBoundsCall =>
        /\ res = "path"
        /\ Len(path) >= 1
        /\ path[1] = start
        /\ path[Len(path)] = Target
        /\ \A i \in 1 .. (Len(path) - 1) :
              /\ path[i] \in InGrid /\ path[i + 1] \in InGrid
              /\ OpenBetween(path[i], path[i + 1])

C6_Witness ==
    /\ InBoundsCall /\ res = "path"
    /\ start # <<0, 0>> /\ goal # None
    /\ Len(path) >= 4
    /\ path[1] = start /\ path[Len(path)] = goal
    /\ OpenBetween(path[1], path[2])

(***************************************************************************)
(* C7: for all in-bounds cells a, b of a generated maze, the path returned *)
(* by solve_bfs(a, b) has as many edges as the distance between a and b in *)
(* the open-adjacency graph, and no cell occurs twice in it.               *)
(***************************************************************************)
C7_ShortestPath ==
    InBoundsCall =>
        /\ res = "path"
        /\ Len(path) - 1 = TreeDist(start, Target)
        /\ Cardinality({path[i] : i \in 1 .. Len(path)}) = Len(path)

\* A path that the walls make longer than the walk along the grid.
C7_Witness ==
    /\ InBoundsCall /\ res = "path"
    /\ Len(path) - 1 = TreeDist(start, Target)
    /\ Len(path) - 1 > Abs(start[1] - Target[1]) + Abs(start[2] - Target[2])

(***************************************************************************)
(* C8: for all in-bounds cells a, b of a generated maze, the reverse of    *)
(* solve_bfs(a, b) is a path from b to a and equals solve_bfs(b, a) cell   *)
(* for cell.                                                               *)
(***************************************************************************)
C8_ReverseSymmetric ==
    InBoundsCall =>
        LET back == SolveBfs(Target, start)
        IN  /\ res = "path" /\ back.res = "path"
            /\ Len(path) >= 1
            /\ Flip(path)[1] = Target /\ Flip(path)[Len(path)] = start
            /\ Len(back.path) = Len(path)
            /\ Flip(path) = back.path

C8_Witness ==
    /\ InBoundsCall /\ res = "path"
    /\ Len(path) >= 4
    /\ start # <<0, 0>>
    /\ Flip(path) = SolveBfs(Target, start).path

(***************************************************************************)
(* C9: create(width, height) with width <= 0 or height <= 0 fails before   *)
(* any generation work begins, and no maze is returned: no maze with a     *)
(* non-positive dimension is ever under generation or returned.            *)
(***************************************************************************)
C9_InvalidDimensionRejected ==
    (width <= 0 \/ height <= 0) => pc \notin {"generate", "made"}

(***************************************************************************)
(* C10: solve_bfs called on a generated maze with a start cell outside the *)
(* grid fails with an error and returns no path.                           *)
(***************************************************************************)
C10_StartOutOfBounds ==
    (Generated /\ res # "none" /\ start \notin InGrid) =>
        (res # "path" /\ path = <<>>)

(***************************************************************************)
(* C11: solve_bfs called on a generated maze with an in-bounds start and   *)
(* an explicit goal outside the grid fails with an error; it never returns *)
(* a cell sequence.                                                        *)
(***************************************************************************)
C11_GoalOutOfBounds ==
    (Generated /\ res # "none" /\ start \in InGrid
        /\ goal # None /\ goal \notin InGrid) =>
        (res # "path" /\ path = <<>>)

(***************************************************************************)
(* C12: for every generated maze and every in-bounds cell c,               *)
(* solve_bfs(c, c) returns the single-cell path [c].                       *)
(***************************************************************************)
C12_SameCell ==
    (InBoundsCall /\ start = Target) => (res = "path" /\ path = <<start>>)

C12_Witness ==
    /\ InBoundsCall /\ goal # None /\ start = goal /\ start # <<0, 0>>
    /\ width >= 2 /\ height >= 2
    /\ path = <<start>>

(***************************************************************************)
(* C13: solve_bfs leaves the maze unchanged: width, height and every wall  *)
(* flag are the same after the call as before it, for every start and      *)
(* goal, and solving the maze again with the same arguments gives the      *)
(* outcome the call gave.                                                  *)
(***************************************************************************)
C13_SolveFrame ==
    /\ [][(pc = "made" /\ res = "none" /\ res' # "none") =>
            (width' = width /\ height' = height /\ cells' = cells)]_vars
    /\ [](pc = "made" /\ res # "none" =>
            SolveBfs(start, goal) = [res |-> res, path |-> path])

C13_Witness ==
    /\ Generated /\ res = "path" /\ Len(path) >= 4
    /\ SolveBfs(start, goal).path = path
    /\ \E c \in InGrid : cells[c] # AllWalls

(***************************************************************************)
(* Counting the pushes and pops of _generate.                              *)
(***************************************************************************)
RECURSIVE SumOver(_, _)
SumOver(f, S) ==
    IF S = {} THEN 0
    ELSE LET c == CHOOSE x \in S : TRUE
         IN  f[c] + SumOver(f, S \ {c})

Total(f) == SumOver(f, DOMAIN f)

NoRepeat(s) == \A i \in 1 .. Len(s) : \A j \in 1 .. Len(s) : s[i] = s[j] => i = j

\* _generate is running on, or has returned from, a proper W x H grid.
Generating == pc \in {"generate", "made"} /\ width >= 1 /\ height >= 1

(***************************************************************************)
(* C14: create(1, 1) ends with the single cell (0,0) holding all four      *)
(* walls N, S, E, W, after one push and one pop.                           *)
(***************************************************************************)
C14_OneByOne ==
    (Generated /\ width = 1 /\ height = 1) =>
        /\ cells = (<<0, 0>> :> AllWalls)
        /\ Total(pushed) = 1 /\ Total(popped) = 1
        /\ stack = <<>>

C14_Witness ==
    /\ Generated /\ width = 1 /\ height = 1
    /\ cells[<<0, 0>>] = AllWalls
    /\ pushed = (<<0, 0>> :> 1) /\ popped = (<<0, 0>> :> 1)

(***************************************************************************)
(* C15: during generation every cell is pushed onto the stack exactly once *)
(* and popped exactly once: no cell is ever pushed or popped twice, the    *)
(* stack never holds a cell twice, and a complete run has made exactly     *)
(* width*height pushes and width*height pops, one of each per cell.        *)
(***************************************************************************)
C15_PushPopOnce ==
    Generating =>
        /\ \A c \in DOMAIN pushed : pushed[c] = 1
        /\ \A c \in DOMAIN popped : popped[c] = 1
        /\ NoRepeat(stack)
        /\ pc = "made" =>
              /\ DOMAIN pushed = InGrid /\ DOMAIN popped = InGrid
              /\ Total(pushed) = width * height
              /\ Total(popped) = width * height

C15_Witness ==
    /\ Generated /\ width >= 2 /\ height >= 2
    /\ Total(pushed) = width * height
    /\ Total(popped) = width * height

(***************************************************************************)
(* C16: every wall-removal step of generation acts on the cell at the top  *)
(* of the stack and one in-bounds cardinal neighbour of it that was not    *)
(* visited before the step, and clears exactly the two walls they turn to  *)
(* each other: never a wall between non-adjacent cells, never one between  *)
(* two visited cells.                                                      *)
(***************************************************************************)
RemovalAtTop ==
    /\ stack # <<>>
    /\ stack[Len(stack)] \in InGrid
    /\ \E b \in InGrid \ visited :
          /\ Adjacent(stack[Len(stack)], b)
          /\ cells' = [cells EXCEPT
                         ![stack[Len(stack)]][Facing(stack[Len(stack)], b)] = FALSE,
                         ![b][Facing(b, stack[Len(stack)])] = FALSE]

C16_RemovalAtTop == [][(pc = "generate" /\ cells' # cells) => RemovalAtTop]_vars

\* A wall has just been removed between the top of the stack and the cell
\* under it.
C16_Witness ==
    /\ pc = "generate" /\ Len(stack) >= 4
    /\ OpenBetween(stack[Len(stack) - 1], stack[Len(stack)])
    /\ popped = <<>>

(***************************************************************************)
(* C17: in every reachable state, during and after generation, the wall    *)
(* flags are symmetric: for adjacent in-bounds cells a and b, a's wall     *)
(* facing b is absent exactly when b's wall facing a is absent, and so b   *)
(* is an open neighbour of a exactly when a is an open neighbour of b.     *)
(***************************************************************************)
IsOpenNeighbor(a, b) ==
    \E i \in 1 .. Len(NeighborsOpen(a)) : NeighborsOpen(a)[i] = b

C17_WallsSymmetric ==
    \A a \in InGrid : \A b \in InGrid :
        /\ Adjacent(a, b) => (cells[a][Facing(a, b)] = cells[b][Facing(b, a)])
        /\ IsOpenNeighbor(a, b) <=> IsOpenNeighbor(b, a)

C17_Witness ==
    /\ pc = "generate" /\ Len(stack) >= 3
    /\ ~cells[stack[2]][Facing(stack[2], stack[3])]
    /\ ~cells[stack[3]][Facing(stack[3], stack[2])]
    /\ IsOpenNeighbor(stack[2], stack[3]) /\ IsOpenNeighbor(stack[3], stack[2])

(***************************************************************************)
(* C18: generation never removes a wall on the outer border of the grid:   *)
(* in every reachable state the N wall of every cell with y = 0, the S     *)
(* wall of every cell with y = height-1, the W wall of every cell with     *)
(* x = 0 and the E wall of every cell with x = width-1 are present, so the *)
(* bounds checks of neighbors_open exclude no cell.                        *)
(***************************************************************************)
\* The open neighbours of a cell by its wall flags alone.
OpenSides(cell) ==
    LET x == cell[1]
        y == cell[2]
    IN  (IF ~cells[cell]["N"] THEN << <<x, y - 1>> >> ELSE <<>>)
        \o (IF ~cells[cell]["S"] THEN << <<x, y + 1>> >> ELSE <<>>)
        \o (IF ~cells[cell]["E"] THEN << <<x + 1, y>> >> ELSE <<>>)
        \o (IF ~cells[cell]["W"] THEN << <<x - 1, y>> >> ELSE <<>>)

C18_BorderKept ==
    \A c \in InGrid :
        /\ c[2] = 0 => cells[c]["N"]
        /\ c[2] = height - 1 => cells[c]["S"]
        /\ c[1] = 0 => cells[c]["W"]
        /\ c[1] = width - 1 => cells[c]["E"]
        /\ NeighborsOpen(c) = OpenSides(c)

\* A maze with every border cell opened toward the inside.
C18_Witness ==
    /\ Generated /\ width >= 3 /\ height >= 3
    /\ \A c \in InGrid : cells[c] # AllWalls /\ NeighborsOpen(c) = OpenSides(c)
    /\ cells[<<width - 1, height - 1>>]["E"]
    /\ cells[<<width - 1, height - 1>>]["S"]

(***************************************************************************)
(* C19: in every state of the generation loop the open edges form a tree   *)
(* that spans exactly the visited cells (as many open edges as visited     *)
(* cells less one, all visited cells connected, every unvisited cell fully *)
(* walled), and the stack, read bottom to top, is a simple path of open    *)
(* edges that starts at (0,0) and whose cells are all visited.             *)
(***************************************************************************)
StackIsOpenPath ==
    /\ stack # <<>> => stack[1] = <<0, 0>>
    /\ NoRepeat(stack)
    /\ \A i \in 1 .. Len(stack) : stack[i] \in visited
    /\ \A i \in 1 .. (Len(stack) - 1) : OpenBetween(stack[i], stack[i + 1])

C19_LoopInvariant ==
    (pc = "generate" /\ width >= 1 /\ height >= 1) =>
        LET E == OpenEdges
        IN  /\ visited \subseteq InGrid
            /\ Cardinality(E) = Cardinality(visited) - 1
            /\ ReachFrom(E, {<<0, 0>>}) = visited
            /\ \A c \in InGrid \ visited : cells[c] = AllWalls
            /\ StackIsOpenPath

\* In the middle of a run, after a backtrack.
C19_Witness ==
    /\ pc = "generate" /\ width >= 2 /\ height >= 2
    /\ Len(stack) >= 3
    /\ Cardinality(visited) > Len(stack)
    /\ visited # InGrid
    /\ Cardinality(OpenEdges) = Cardinality(visited) - 1
    /\ StackIsOpenPath
====
